---- MODULE Spec2Model ----
(***************************************************************************)
(* Lap-based alarm stopwatch (the "current lap" variant of the timer).     *)
(*                                                                         *)
(* The state is the global `state` object, the audio element, the          *)
(* localStorage entry 'lapsHistory', the two time displays, the interval   *)
(* timer created by setInterval, and the wall clock read by Date.now().    *)
(* Every handler runs to completion (single-threaded event loop), so each  *)
(* handler is one action; every Date.now() inside one handler run reads    *)
(* the same clock value `now`.  Times are milliseconds.                    *)
(*                                                                         *)
(* Lap indexes are 1-based here (Sequences); the code's index is k - 1.    *)
(***************************************************************************)
EXTENDS Integers, Sequences, FiniteSets, TLC

VARIABLES
    isRunning,            \* state.isRunning
    elapsedTime,          \* state.elapsedTime
    startTime,            \* state.startTime (Null or a timestamp)
    pausedTime,           \* state.pausedTime
    currentLapStartTime,  \* state.currentLapStartTime (Null or a timestamp)
    laps,                 \* state.laps
    intervalId,           \* state.intervalId: "null", "active" or "cleared"
    tickSources,          \* number of interval timers that are still active
    tickDue,              \* first Date.now() reading at which the interval
                          \* callback may run next
    now,                  \* Date.now()
    audioPlaying,         \* the alarm audio element is sounding
    storageAvailable,     \* window.localStorage can be used in this session
    stored,               \* localStorage['lapsHistory']: [present, value]
    stopwatchTimeText,    \* elements.stopwatchTime.textContent
    currentLapTimeText,   \* elements.currentLapTime.textContent
    played,               \* history: lap whose alarm playAlarmSound was
                          \* invoked for in the last step (0: not invoked)
    pauseMark,            \* history: the clock at the pause in force or just
                          \* resumed from, and whether a lap was opened in it
    edits,                \* history: number of alarm edits and toggles so far
    uncaughtError,        \* history: the last handler was left by an exception
    closedFired           \* history: since the last reset, createLap has
                          \* closed a lap whose alarm had fired

progVars == <<isRunning, elapsedTime, startTime, pausedTime,
              currentLapStartTime, laps, intervalId, tickSources, tickDue>>
envVars  == <<now, audioPlaying, storageAvailable, stored,
              stopwatchTimeText, currentLapTimeText>>
histVars == <<played, pauseMark, edits, uncaughtError, closedFired>>
vars     == <<progVars, envVars, histVars>>

----------------------------------------------------------------------------
(* Bounds of the model                                                     *)

\* Last clock reading, longest ledger and number of threshold edits and
\* toggles of a session.
MaxNow == 200
MaxLaps == 2
MaxEdits == 2
\* In the fresh-run scenario: how late an interval callback may run, and
\* the time the scenario lasts after the start.
MaxLate == 50
ScenarioEnd == 320000
\* The time that may pass between the first and the last Date.now() reading
\* of one handler.
MaxSkew == 50
\* Clock advances between handlers, gaps between two successive Date.now()
\* readings inside a handler, and thresholds typed into a lap's input.
ClockSteps == {100}
ReadSkews == {0, 50}
DurationInputs == {0, 100}

----------------------------------------------------------------------------
(* Program constants                                                       *)

Null == -1
TickPeriod == 100
\* The interval timer runs on the runtime's own clock, in whole milliseconds
\* that begin at other instants than Date.now()'s: when the period has
\* passed on the timer's clock, Date.now() may still read one millisecond
\* less.
TimerSlack == 1
FallbackAlarmDuration == 5 * 60 * 1000
DefaultAlarmDurations ==
    << 1 * 60 * 1000, 1 * 60 * 1000, 1 * 60 * 1000, 5 * 60 * 1000, 5 * 60 * 1000 >>

Max_Unclamped(a, b) == b

\* Math.max(a, b)
Max(a, b) == IF a >= b THEN a ELSE b

----------------------------------------------------------------------------
(* formatTime: milliseconds -> "HH:MM:SS", as a sequence of characters     *)

DigitChar(d) == <<"0", "1", "2", "3", "4", "5", "6", "7", "8", "9">>[d + 1]

RECURSIVE ToDigits(_)
ToDigits(n) == IF n < 10 THEN <<DigitChar(n)>>
               ELSE ToDigits(n \div 10) \o <<DigitChar(n % 10)>>

PadStart2(s) == IF Len(s) < 2 THEN <<"0">> \o s ELSE s

formatTime(milliseconds) ==
    LET totalSeconds == milliseconds \div 1000
        hours        == totalSeconds \div 3600
        minutes      == (totalSeconds % 3600) \div 60
        seconds      == totalSeconds % 60
    IN  PadStart2(ToDigits(hours)) \o <<":">> \o
        PadStart2(ToDigits(minutes)) \o <<":">> \o
        PadStart2(ToDigits(seconds))

ZeroText == <<"0", "0", ":", "0", "0", ":", "0", "0">>

----------------------------------------------------------------------------
(* Audio element, localStorage                                             *)

\* audio.currentTime = 0; audio.play(): the promise may reject (autoplay
\* policy, missing file); the rejection is caught and only logged.
playAlarmSound(playing, playOk) == IF playOk THEN TRUE ELSE playing

stopAlarmSound_Noop(playing) == playing

\* audio.pause(); audio.currentTime = 0
stopAlarmSound(playing) == FALSE

NoEntry == [present |-> FALSE, value |-> <<>>]
Entry(v) == [present |-> TRUE, value |-> v]

\* The value JSON.stringify receives: the ledger without isRecorded.
SerializeLaps(ls) ==
    [k \in DOMAIN ls |->
        [createdAt     |-> ls[k].createdAt,
         recordedTime  |-> ls[k].recordedTime,
         alarmDuration |-> ls[k].alarmDuration,
         triggered     |-> ls[k].triggered,
         enabled       |-> ls[k].enabled]]

saveLapsToStorage_BeforePush(st, ls) ==
    IF storageAvailable THEN Entry(SerializeLaps(SubSeq(ls, 1, Len(ls) - 1)))
    ELSE st

\* localStorage.setItem inside try/catch: touching an unavailable store
\* throws, and the exception is swallowed.
saveLapsToStorage(st, ls) ==
    IF storageAvailable THEN Entry(SerializeLaps(ls)) ELSE st

\* localStorage.removeItem inside try/catch.
clearLapsHistory(st) == IF storageAvailable THEN NoEntry ELSE st

StorageErrorPropagates_Uncaught == TRUE

\* catch (error) { console.warn(...) }: the exception an unavailable store
\* throws does not leave saveLapsToStorage / clearLapsHistory.
StorageErrorPropagates == FALSE

----------------------------------------------------------------------------
(* Lap ledger helpers                                                      *)

\* state.defaultAlarmDurations[lapIndex] || 5 * 60 * 1000, lapIndex 0-based
\* (an index past the table reads undefined, a zero entry is falsy).
DefaultDuration(lapIndex) ==
    IF lapIndex + 1 \in DOMAIN DefaultAlarmDurations
       /\ DefaultAlarmDurations[lapIndex + 1] # 0
    THEN DefaultAlarmDurations[lapIndex + 1]
    ELSE FallbackAlarmDuration

NewLap_FallbackOnly(t, lapIndex) ==
    [createdAt     |-> t,
     recordedTime  |-> 0,
     alarmDuration |-> FallbackAlarmDuration,
     triggered     |-> FALSE,
     enabled       |-> TRUE,
     isRecorded    |-> FALSE]

\* The lap object literal pushed by startStopwatch and createLap.
NewLap(t, lapIndex) ==
    [createdAt     |-> t,
     recordedTime  |-> 0,
     alarmDuration |-> DefaultDuration(lapIndex),
     triggered     |-> FALSE,
     enabled       |-> TRUE,
     isRecorded    |-> FALSE]

CloseLap_NotRecorded(lap, recordedTime) ==
    [lap EXCEPT !.enabled = FALSE, !.triggered = FALSE]

\* createLap's treatment of the lap that was last in the ledger.
CloseLap(lap, recordedTime) ==
    IF ~lap.isRecorded
    THEN [lap EXCEPT !.recordedTime = Max(0, recordedTime),
                     !.isRecorded = TRUE,
                     !.enabled = FALSE,
                     !.triggered = FALSE]
    ELSE [lap EXCEPT !.enabled = FALSE, !.triggered = FALSE]

\* A ledger left in the store by an earlier session of the page: the one
\* saveLapsToStorage writes in the shortest session that writes at all,
\* startStopwatch() and createLap() at clock reading 0.
EarlierSessionLaps ==
    SerializeLaps(<< CloseLap(NewLap(0, 0), 0), NewLap(0, 1) >>)

\* The elapsed time createLap and updateCurrentLapDisplay derive from
\* currentLapStartTime.
CurrentLapElapsed(running, t, start, paused, lapStart) ==
    IF running THEN t - lapStart ELSE paused - (lapStart - start)

\* getLapElapsedTime(k - 1) evaluated in a given clock state.
LapElapsedAt(ls, k, running, t, start, paused) ==
    IF k > Len(ls) THEN 0
    ELSE LET mainElapsedTime == IF running THEN t - start ELSE paused
         IN  Max(0, mainElapsedTime - (ls[k].createdAt - start))

getLapElapsedTime(k) ==
    LapElapsedAt(laps, k, isRunning, now, startTime, pausedTime)

\* The main stopwatch's elapsed time as the code derives it.
MainElapsed == IF isRunning THEN now - startTime ELSE pausedTime

ResumeStartTime_NoOffset(t, paused) == t

\* startStopwatch: state.startTime = Date.now() - state.pausedTime
ResumeStartTime(t, paused) == t - paused

\* updateStopwatchDisplay: state.pausedTime = Date.now() - state.startTime
TickPausedTime(t, start, paused) == t - start

AlarmCandidates_All(ls) == DOMAIN ls

AlarmCandidates_PastTheEnd(ls) ==
    IF ls = <<>> THEN {} ELSE {Len(ls) + 1} \cap DOMAIN ls

\* checkLapAlarms: the laps whose alarm is examined in a tick.
AlarmCandidates(ls) == IF ls = <<>> THEN {} ELSE {Len(ls)}

AlarmDue_Retrigger(lap, lapElapsedTime) ==
    lap.enabled /\ lapElapsedTime >= lap.alarmDuration

AlarmDue_Strict(lap, lapElapsedTime) ==
    lap.enabled /\ ~lap.triggered /\ lapElapsedTime > lap.alarmDuration

\* checkLapAlarms: the condition under which the examined lap fires.
AlarmDue(lap, lapElapsedTime) ==
    lap.enabled /\ ~lap.triggered /\ lapElapsedTime >= lap.alarmDuration

FiredFlag_OnlyIfPlayed(playOk) == playOk

\* checkLapAlarms: currentLap.triggered = true, assigned before
\* playAlarmSound() is called and whatever that call achieves.
FiredFlag(playOk) == TRUE

NoPause == [at |-> Null, lapOpened |-> FALSE]

----------------------------------------------------------------------------
(* Initial state: the `state` literal, the page as loaded                  *)

Init ==
    /\ isRunning = FALSE
    /\ elapsedTime = 0
    /\ startTime = Null
    /\ pausedTime = 0
    /\ currentLapStartTime = Null
    /\ laps = <<>>
    /\ intervalId = "null"
    /\ tickSources = 0
    /\ tickDue = Null
    /\ now = 0
    /\ audioPlaying = FALSE
    /\ storageAvailable \in BOOLEAN
    /\ stored \in IF storageAvailable
                  THEN {NoEntry, Entry(EarlierSessionLaps)}
                  ELSE {NoEntry}
    /\ stopwatchTimeText = ZeroText
    /\ currentLapTimeText = ZeroText
    /\ played = 0
    /\ pauseMark = NoPause
    /\ edits = 0
    /\ uncaughtError = FALSE
    /\ closedFired = FALSE

----------------------------------------------------------------------------
(* Timer primitives                                                        *)

\* JavaScript arithmetic reads null as 0.
Num(x) == IF x = Null THEN 0 ELSE x

ClearedSources_Kept == tickSources

\* clearInterval(state.intervalId): cancels the timer the handle names, if
\* that timer is still active.
ClearedSources == IF intervalId = "active" THEN tickSources - 1 ELSE tickSources
ClearedHandle  == IF intervalId = "null" THEN "null" ELSE "cleared"

\* setInterval(callback, 100) called after Date.now() read t: the first
\* reading at which the callback may run for the first time.
FirstDue(t) == t + TickPeriod - TimerSlack

\* The first reading at which the callback may run again after it ran with
\* Date.now() reading t.  The timer is re-armed on the runtime's clock as of
\* the start of the event-loop turn, which can lie any time before t, so
\* the program can rely on no minimum distance between two runs.
NextDue(t, due) == t

\* The clock advances between handlers by one of ClockSteps, or up to the
\* first reading at which the interval callback may run.
ClockStepsNow ==
    ClockSteps \cup
        (IF tickSources > 0 /\ now < tickDue THEN {tickDue - now} ELSE {})

ResetLaps_Kept == laps

\* The ledger resetStopwatch leaves behind.
ResetLaps == <<>>

----------------------------------------------------------------------------
(* Handlers                                                                *)

FirstLapNeeded_Always(ls) == TRUE

FirstLapNeeded_Never(ls) == FALSE

\* startStopwatch: if (state.laps.length === 0) the first lap is pushed
FirstLapNeeded(ls) == Len(ls) = 0

\* startStopwatch(); Date.now() is read for startTime and, when the first
\* lap is pushed, again for its createdAt, d later.
StartStopwatchAt(d) ==
    /\ played' = 0
    /\ uncaughtError' = FALSE
    /\ closedFired' = closedFired
    /\ IF isRunning
       THEN UNCHANGED <<progVars, envVars, pauseMark, edits>>
       ELSE LET start == ResumeStartTime(now, pausedTime)
                t2    == IF FirstLapNeeded(laps) THEN now + d ELSE now
            IN
            /\ isRunning' = TRUE
            /\ startTime' = start
            /\ currentLapStartTime' =
                   IF currentLapStartTime = Null THEN start
                   ELSE currentLapStartTime
            /\ laps' = IF FirstLapNeeded(laps) THEN Append(laps, NewLap(t2, 0))
                       ELSE laps
            /\ intervalId' = "active"
            /\ tickSources' = tickSources + 1
            /\ tickDue' = FirstDue(t2)
            /\ now' = t2
            /\ UNCHANGED <<elapsedTime, pausedTime, audioPlaying,
                           storageAvailable, stored, stopwatchTimeText,
                           currentLapTimeText, pauseMark, edits>>

StartStopwatch ==
    \E d \in ReadSkews : now + d <= MaxNow /\ StartStopwatchAt(d)

\* pauseStopwatch()
PauseStopwatch ==
    /\ played' = 0
    /\ uncaughtError' = FALSE
    /\ closedFired' = closedFired
    /\ IF ~isRunning
       THEN UNCHANGED <<progVars, envVars, pauseMark, edits>>
       ELSE /\ isRunning' = FALSE
            /\ tickSources' = ClearedSources
            /\ intervalId' = ClearedHandle
            /\ tickDue' = IF ClearedSources = 0 THEN Null ELSE tickDue
            /\ pauseMark' = [at |-> now, lapOpened |-> FALSE]
            /\ UNCHANGED <<elapsedTime, startTime, pausedTime,
                           currentLapStartTime, laps, envVars, edits>>

\* resetStopwatch(); a statement after clearLapsHistory() runs only if that
\* call returns.
ResetStopwatch ==
    /\ played' = 0
    /\ uncaughtError' = (~storageAvailable /\ StorageErrorPropagates)
    /\ closedFired' = FALSE
    /\ isRunning' = FALSE
    /\ elapsedTime' = 0
    /\ pausedTime' = 0
    /\ startTime' = Null
    /\ currentLapStartTime' = Null
    /\ laps' = ResetLaps
    /\ tickSources' = ClearedSources
    /\ intervalId' = ClearedHandle
    /\ tickDue' = IF ClearedSources = 0 THEN Null ELSE tickDue
    /\ stored' = clearLapsHistory(stored)
    /\ IF ~storageAvailable /\ StorageErrorPropagates
       THEN UNCHANGED <<stopwatchTimeText, currentLapTimeText>>
       ELSE /\ stopwatchTimeText' = ZeroText
            /\ currentLapTimeText' = ZeroText
    /\ pauseMark' = NoPause
    /\ UNCHANGED <<now, audioPlaying, storageAvailable, edits>>

CreateLapIgnored_Never == FALSE

\* createLap's early return: !state.isRunning && state.laps.length === 0
CreateLapIgnored == ~isRunning /\ Len(laps) = 0

\* createLap(), for a ledger of fewer than maxLaps laps; while running
\* Date.now() is read for recordedTime, d1 later for createdAt and d2 later
\* again for currentLapStartTime; while paused only for createdAt.
CreateLapWithinAt(maxLaps, d1, d2) ==
    /\ Len(laps) < maxLaps
    /\ played' = 0
    /\ uncaughtError' = (~CreateLapIgnored /\ ~storageAvailable
                                           /\ StorageErrorPropagates)
    /\ closedFired' = (closedFired \/ (~CreateLapIgnored /\ laps # <<>>
                                       /\ laps[Len(laps)].triggered))
    /\ IF CreateLapIgnored
       THEN UNCHANGED <<progVars, envVars, pauseMark, edits>>
       ELSE LET t2 == IF isRunning THEN now + d1 ELSE now
                t3 == IF isRunning THEN t2 + d2 ELSE t2
                recordedTime ==
                    IF currentLapStartTime # Null
                    THEN CurrentLapElapsed(isRunning, now, Num(startTime),
                                           pausedTime, currentLapStartTime)
                    ELSE 0
                closed ==
                    IF Len(laps) > 0
                    THEN [laps EXCEPT ![Len(laps)] =
                                          CloseLap(laps[Len(laps)], recordedTime)]
                    ELSE laps
                ledger == Append(closed, NewLap(t2, Len(laps)))
            IN  /\ audioPlaying' = stopAlarmSound(audioPlaying)
                /\ laps' = ledger
                /\ currentLapStartTime' =
                       IF isRunning THEN t3 ELSE Num(startTime) + pausedTime
                /\ now' = t3
                /\ stored' = saveLapsToStorage(stored, ledger)
                /\ pauseMark' = IF isRunning THEN pauseMark
                                ELSE [pauseMark EXCEPT !.lapOpened = TRUE]
                /\ UNCHANGED <<isRunning, elapsedTime, startTime, pausedTime,
                               intervalId, tickSources, tickDue,
                               storageAvailable, stopwatchTimeText,
                               currentLapTimeText, edits>>

CreateLapWithin(maxLaps) ==
    \E d1, d2 \in ReadSkews :
        /\ d1 + d2 <= MaxSkew
        /\ now + d1 + d2 <= MaxNow
        /\ CreateLapWithinAt(maxLaps, d1, d2)

CreateLap == CreateLapWithin(MaxLaps)

EditedLaps_AllRearmed(ls, k, durationMs) ==
    [j \in DOMAIN ls |->
        IF j = k THEN [ls[j] EXCEPT !.alarmDuration = durationMs,
                                    !.triggered = FALSE]
        ELSE [ls[j] EXCEPT !.triggered = FALSE]]

EditedLaps_StillTriggered(ls, k, durationMs) ==
    IF k <= Len(ls) THEN [ls EXCEPT ![k].alarmDuration = durationMs] ELSE ls

\* The ledger updateLapAlarmDuration(k - 1, durationMs) leaves.
EditedLaps(ls, k, durationMs) ==
    IF k <= Len(ls)
    THEN [ls EXCEPT ![k].alarmDuration = durationMs, ![k].triggered = FALSE]
    ELSE ls

ToggledLaps_DisarmMarksTriggered(ls, k) ==
    IF k <= Len(ls)
    THEN [ls EXCEPT ![k].enabled = ~ls[k].enabled, ![k].triggered = ls[k].enabled]
    ELSE ls

\* The ledger toggleLapAlarm(k - 1) leaves.
ToggledLaps(ls, k) ==
    IF k <= Len(ls)
    THEN [ls EXCEPT ![k].enabled = ~ls[k].enabled, ![k].triggered = FALSE]
    ELSE ls

\* updateLapAlarmDuration(k - 1, durationMs)
UpdateLapAlarmDuration(k, durationMs) ==
    /\ edits < MaxEdits
    /\ edits' = edits + 1
    /\ played' = 0
    /\ uncaughtError' = FALSE
    /\ closedFired' = closedFired
    /\ laps' = EditedLaps(laps, k, durationMs)
    /\ UNCHANGED <<isRunning, elapsedTime, startTime, pausedTime,
                   currentLapStartTime, intervalId, tickSources, tickDue,
                   envVars, pauseMark>>

\* toggleLapAlarm(k - 1)
ToggleLapAlarm(k) ==
    /\ edits < MaxEdits
    /\ edits' = edits + 1
    /\ played' = 0
    /\ uncaughtError' = FALSE
    /\ closedFired' = closedFired
    /\ laps' = ToggledLaps(laps, k)
    /\ UNCHANGED <<isRunning, elapsedTime, startTime, pausedTime,
                   currentLapStartTime, intervalId, tickSources, tickDue,
                   envVars, pauseMark>>

\* The setInterval callback: updateStopwatchDisplay();
\* updateCurrentLapDisplay(); checkLapAlarms().  It runs at any
\* reading from tickDue on; playOk: audio.play() is not refused.  Date.now() is read
\* by updateStopwatchDisplay, d1 later by updateCurrentLapDisplay and d2
\* later again by getLapElapsedTime.
TickAt(playOk, d1, d2) ==
    /\ tickSources > 0
    /\ now >= tickDue
    /\ LET t2 == now + d1
           t3 == t2 + d2
           paused1 == IF isRunning
                      THEN TickPausedTime(now, startTime, pausedTime)
                      ELSE pausedTime
           lapText ==
               IF currentLapStartTime = Null THEN ZeroText
               ELSE formatTime(Max(0,
                        CurrentLapElapsed(isRunning, t2, Num(startTime),
                                          paused1, currentLapStartTime)))
           due == {k \in AlarmCandidates(laps) :
                      AlarmDue(laps[k],
                               LapElapsedAt(laps, k, isRunning, t3,
                                            startTime, paused1))}
       IN  /\ pausedTime' = paused1
           /\ elapsedTime' = IF isRunning THEN paused1 ELSE elapsedTime
           /\ stopwatchTimeText' =
                  IF isRunning THEN formatTime(paused1) ELSE stopwatchTimeText
           /\ currentLapTimeText' = lapText
           /\ laps' = [k \in DOMAIN laps |->
                          IF k \in due
                          THEN [laps[k] EXCEPT !.triggered = FiredFlag(playOk)]
                          ELSE laps[k]]
           /\ audioPlaying' = IF due # {}
                              THEN playAlarmSound(audioPlaying, playOk)
                              ELSE audioPlaying
           /\ played' = IF due # {} THEN CHOOSE k \in due : TRUE ELSE 0
           /\ now' = t3
    /\ tickDue' = NextDue(now, tickDue)
    /\ pauseMark' = NoPause
    /\ uncaughtError' = FALSE
    /\ closedFired' = closedFired
    /\ UNCHANGED <<isRunning, startTime, currentLapStartTime, intervalId,
                   tickSources, storageAvailable, stored, edits>>

TickWithin(playOk, limit) ==
    \E d1, d2 \in ReadSkews :
        /\ d1 + d2 <= MaxSkew
        /\ now + d1 + d2 <= limit
        /\ TickAt(playOk, d1, d2)

Tick(playOk) == TickWithin(playOk, MaxNow)

----------------------------------------------------------------------------
(* Environment                                                             *)

\* The wall clock advances by d, up to `limit`, whether or not an interval
\* callback is due: the callback may run late.
AdvanceClock(d, limit) ==
    /\ now + d <= limit
    /\ now' = now + d
    /\ played' = 0
    /\ uncaughtError' = FALSE
    /\ closedFired' = closedFired
    /\ UNCHANGED <<progVars, audioPlaying, storageAvailable, stored,
                   stopwatchTimeText, currentLapTimeText, pauseMark, edits>>

\* The alarm clip plays to its end.
AudioEnded ==
    /\ audioPlaying
    /\ audioPlaying' = FALSE
    /\ played' = 0
    /\ uncaughtError' = FALSE
    /\ closedFired' = closedFired
    /\ UNCHANGED <<progVars, now, storageAvailable, stored,
                   stopwatchTimeText, currentLapTimeText, pauseMark, edits>>

----------------------------------------------------------------------------
(* Specifications                                                          *)

Next ==
    \/ StartStopwatch
    \/ PauseStopwatch
    \/ ResetStopwatch
    \/ CreateLap
    \/ \E k \in 1..MaxLaps, d \in DurationInputs : UpdateLapAlarmDuration(k, d)
    \/ \E k \in 1..MaxLaps : ToggleLapAlarm(k)
    \/ \E playOk \in BOOLEAN : Tick(playOk)
    \/ \E d \in ClockSteps : AdvanceClock(d, MaxNow)
    \/ AudioEnded

Spec == Init /\ [][Next]_vars

\* In a run without pause: the reading at which the interval callback last
\* ran, or that of the start when it has not run yet.
LastRun == Num(startTime) + pausedTime

\* A fresh run and nothing else: one start, then only the clock and the
\* interval callback, which runs at most a period and MaxLate after its last
\* run, until the stopwatch shows ScenarioEnd.
FreshRunNext ==
    \/ (laps = <<>> /\ StartStopwatch)
    \/ \E playOk \in BOOLEAN : TickWithin(playOk, startTime + ScenarioEnd)
    \/ (isRunning /\ \E d \in ClockStepsNow :
                        /\ now + d <= LastRun + TickPeriod + MaxLate
                        /\ AdvanceClock(d, startTime + ScenarioEnd))

FreshRunSpec == Init /\ [][FreshRunNext]_vars

\* The fresh run under the browser's scheduling: the clock keeps advancing
\* and an interval that is due gets its callback run.
FairFreshRunSpec ==
    /\ FreshRunSpec
    /\ WF_vars(\E playOk \in BOOLEAN :
                   TickWithin(playOk, startTime + ScenarioEnd))
    /\ WF_vars(isRunning /\ \E d \in ClockStepsNow :
                                /\ now + d <= LastRun + TickPeriod + MaxLate
                                /\ AdvanceClock(d, startTime + ScenarioEnd))

\* The buttons and the edit of the open lap's threshold to 0, which lets
\* its alarm fire before MaxNow, with no toggle, on a ledger of one lap more
\* than Spec allows; the clock also stops at the first reading at which the
\* interval callback may run.
LedgerLaps == MaxLaps + 1

LedgerNext ==
    \/ StartStopwatch
    \/ PauseStopwatch
    \/ ResetStopwatch
    \/ CreateLapWithin(LedgerLaps)
    \/ (laps # <<>> /\ UpdateLapAlarmDuration(Len(laps), 0))
    \/ \E playOk \in BOOLEAN : Tick(playOk)
    \/ \E d \in ClockStepsNow : AdvanceClock(d, MaxNow)

LedgerSpec == Init /\ [][LedgerNext]_vars

----------------------------------------------------------------------------
(* script.js: the build in which every lap keeps its own alarm.  Its        *)
(* pauseStopwatch, updateLapAlarmDuration and toggleLapAlarm are those      *)
(* above; it has no currentLapStartTime and no store.                       *)

Script_DefaultAlarmDurations ==
    << 5 * 60 * 1000, 3 * 60 * 1000, 3 * 60 * 1000, 5 * 60 * 1000, 5 * 60 * 1000 >>

\* state.defaultAlarmDurations[lapIndex] || 5 * 60 * 1000, lapIndex 0-based
Script_DefaultDuration(lapIndex) ==
    IF lapIndex + 1 \in DOMAIN Script_DefaultAlarmDurations
       /\ Script_DefaultAlarmDurations[lapIndex + 1] # 0
    THEN Script_DefaultAlarmDurations[lapIndex + 1]
    ELSE FallbackAlarmDuration

\* The lap object literal pushed by createLap.
Script_NewLap(t, lapIndex) ==
    [createdAt     |-> t,
     alarmDuration |-> Script_DefaultDuration(lapIndex),
     triggered     |-> FALSE,
     enabled       |-> TRUE]

\* getLapElapsedTime(k - 1) evaluated in a given clock state.
Script_LapElapsedAt(ls, k, running, t, start, paused) ==
    IF k > Len(ls) THEN 0
    ELSE LET currentTime == IF running THEN t ELSE Num(start) + paused
         IN  Max(0, currentTime - ls[k].createdAt)

Script_AlarmCandidates_LastOnly(ls) == IF ls = <<>> THEN {} ELSE {Len(ls)}

\* checkLapAlarms: state.laps.forEach examines every lap.
Script_AlarmCandidates(ls) == DOMAIN ls

Script_Init == Init /\ ~storageAvailable

\* startStopwatch(): the first lap is made by a call of createLap(), which
\* reads Date.now() d after startStopwatch did.
Script_StartStopwatchAt(d) ==
    /\ played' = 0
    /\ uncaughtError' = FALSE
    /\ closedFired' = closedFired
    /\ IF isRunning
       THEN UNCHANGED <<progVars, envVars, pauseMark, edits>>
       ELSE LET t2 == IF Len(laps) = 0 THEN now + d ELSE now IN
            /\ isRunning' = TRUE
            /\ startTime' = ResumeStartTime(now, pausedTime)
            /\ laps' = IF Len(laps) = 0 THEN <<Script_NewLap(t2, 0)>> ELSE laps
            /\ audioPlaying' = IF Len(laps) = 0 THEN stopAlarmSound(audioPlaying)
                               ELSE audioPlaying
            /\ intervalId' = "active"
            /\ tickSources' = tickSources + 1
            /\ tickDue' = FirstDue(t2)
            /\ now' = t2
            /\ UNCHANGED <<elapsedTime, pausedTime, currentLapStartTime,
                           storageAvailable, stored, stopwatchTimeText,
                           currentLapTimeText, pauseMark, edits>>

Script_StartStopwatch ==
    \E d \in ReadSkews : now + d <= MaxNow /\ Script_StartStopwatchAt(d)

\* resetStopwatch()
Script_ResetStopwatch ==
    /\ played' = 0
    /\ uncaughtError' = FALSE
    /\ closedFired' = FALSE
    /\ isRunning' = FALSE
    /\ elapsedTime' = 0
    /\ pausedTime' = 0
    /\ startTime' = Null
    /\ laps' = <<>>
    /\ tickSources' = ClearedSources
    /\ intervalId' = ClearedHandle
    /\ tickDue' = IF ClearedSources = 0 THEN Null ELSE tickDue
    /\ stopwatchTimeText' = ZeroText
    /\ pauseMark' = NoPause
    /\ UNCHANGED <<currentLapStartTime, now, audioPlaying, storageAvailable,
                   stored, currentLapTimeText, edits>>

\* createLap()
Script_CreateLap ==
    /\ Len(laps) < MaxLaps
    /\ played' = 0
    /\ uncaughtError' = FALSE
    /\ closedFired' = closedFired
    /\ IF ~isRunning /\ Len(laps) = 0
       THEN UNCHANGED <<progVars, envVars, pauseMark, edits>>
       ELSE /\ audioPlaying' = stopAlarmSound(audioPlaying)
            /\ laps' = Append(laps, Script_NewLap(now, Len(laps)))
            /\ pauseMark' = IF isRunning THEN pauseMark
                            ELSE [pauseMark EXCEPT !.lapOpened = TRUE]
            /\ UNCHANGED <<isRunning, elapsedTime, startTime, pausedTime,
                           currentLapStartTime, intervalId, tickSources,
                           tickDue, now, storageAvailable, stored,
                           stopwatchTimeText, currentLapTimeText, edits>>

\* The clock reading getLapElapsedTime gets for lap k in checkLapAlarms'
\* forEach: the reading t before the loop plus the skews of laps 1..k.
RECURSIVE Script_ReadAt(_, _, _)
Script_ReadAt(t, ds, k) ==
    IF k = 0 THEN t ELSE Script_ReadAt(t, ds, k - 1) + ds[k]

\* The setInterval callback: updateStopwatchDisplay();
\* updateCurrentLapDisplay(); checkLapAlarms().  played is the last lap the
\* forEach called playAlarmSound for.  Date.now() is read by
\* updateStopwatchDisplay, d1 later by updateCurrentLapDisplay and ds[k]
\* later again for each lap k of the forEach.
Script_TickAt(playOk, d1, ds) ==
    /\ tickSources > 0
    /\ now >= tickDue
    /\ LET t2 == now + d1
           paused1 == IF isRunning
                      THEN TickPausedTime(now, startTime, pausedTime)
                      ELSE pausedTime
           lapText ==
               IF Len(laps) = 0 THEN ZeroText
               ELSE formatTime(Script_LapElapsedAt(laps, Len(laps), isRunning,
                                                   t2, startTime, paused1))
           due == {k \in Script_AlarmCandidates(laps) :
                      AlarmDue(laps[k],
                               Script_LapElapsedAt(laps, k, isRunning,
                                                   Script_ReadAt(t2, ds, k),
                                                   startTime, paused1))}
       IN  /\ pausedTime' = paused1
           /\ elapsedTime' = IF isRunning THEN paused1 ELSE elapsedTime
           /\ stopwatchTimeText' =
                  IF isRunning THEN formatTime(paused1) ELSE stopwatchTimeText
           /\ currentLapTimeText' = lapText
           /\ laps' = [k \in DOMAIN laps |->
                          IF k \in due
                          THEN [laps[k] EXCEPT !.triggered = FiredFlag(playOk)]
                          ELSE laps[k]]
           /\ audioPlaying' = IF due # {}
                              THEN playAlarmSound(audioPlaying, playOk)
                              ELSE audioPlaying
           /\ played' = IF due # {}
                        THEN CHOOSE k \in due : \A j \in due : j <= k
                        ELSE 0
           /\ now' = Script_ReadAt(t2, ds, Len(laps))
    /\ tickDue' = NextDue(now, tickDue)
    /\ pauseMark' = NoPause
    /\ uncaughtError' = FALSE
    /\ closedFired' = closedFired
    /\ UNCHANGED <<isRunning, startTime, currentLapStartTime, intervalId,
                   tickSources, storageAvailable, stored, edits>>

Script_Tick(playOk) ==
    \E d1 \in ReadSkews, ds \in [DOMAIN laps -> ReadSkews] :
        /\ now + d1 + Script_ReadAt(0, ds, Len(laps)) <= MaxNow
        /\ Script_TickAt(playOk, d1, ds)

Script_Next ==
    \/ Script_StartStopwatch
    \/ PauseStopwatch
    \/ Script_ResetStopwatch
    \/ Script_CreateLap
    \/ \E k \in 1..MaxLaps, d \in DurationInputs : UpdateLapAlarmDuration(k, d)
    \/ \E k \in 1..MaxLaps : ToggleLapAlarm(k)
    \/ \E playOk \in BOOLEAN : Script_Tick(playOk)
    \/ \E d \in ClockStepsNow : AdvanceClock(d, MaxNow)
    \/ AudioEnded

Script_Spec == Script_Init /\ [][Script_Next]_vars

----------------------------------------------------------------------------
(* Properties                                                              *)

ActiveLapElapsed == getLapElapsedTime(Len(laps))

\* The interval callback has run at the current instant of a run that was
\* never paused or has ticked since its resume.
TickJustRan ==
    /\ isRunning
    /\ pauseMark = NoPause
    /\ pausedTime > 0
    /\ now = startTime + pausedTime

\* A start that has just resumed the stopwatch from a pause.
JustResumed ==
    /\ isRunning
    /\ pauseMark.at # Null
    /\ now = startTime + pausedTime

\* C1: from a paused state, no step (the clock advancing, a lap, an edit,
\* the resume itself) changes the elapsed time getLapElapsedTime reports for
\* a lap of the ledger: lap time is constant during a pause and does not
\* jump at the resume.
C1_LapTimeFollowsMainTimeline ==
    [][ (~isRunning /\ laps # <<>>) =>
            \A k \in DOMAIN laps \cap DOMAIN laps' :
                getLapElapsedTime(k)' = getLapElapsedTime(k) ]_vars

\* C2: apart from a reset, the main elapsed time never decreases from one
\* running state to the next, does not change in a step that leaves the
\* stopwatch paused, and has right after a resume the value it had right
\* before it; a first start, whose handler reads the clock twice, leaves it
\* at the time that passed between the two readings.
C2_MainElapsedContinuous ==
    [][ ResetStopwatch \/
        ( /\ (isRunning /\ isRunning') => MainElapsed' >= MainElapsed
          /\ (~isRunning /\ ~isRunning') => MainElapsed' = MainElapsed
          /\ (~isRunning /\ isRunning') =>
                 /\ MainElapsed' = MainElapsed + (now' - now)
                 /\ laps # <<>> => MainElapsed' = MainElapsed ) ]_vars

C2_ResumedAfterPause ==
    /\ JustResumed
    /\ now - pauseMark.at >= TickPeriod
    /\ pausedTime > 0

\* C3: no step invokes playAlarmSound for a lap whose triggered flag is
\* already set; only an edit or toggle of that lap, which clears the flag,
\* lets its alarm play again.
C3_AlarmFiresOncePerCycle ==
    [][ \A k \in DOMAIN laps : laps[k].triggered => played' # k ]_vars

C3_TickedAfterTrigger ==
    /\ TickJustRan
    /\ played = 0
    /\ \E k \in DOMAIN laps :
           /\ laps[k].triggered
           /\ getLapElapsedTime(k) >= laps[k].alarmDuration + TickPeriod

C4_ClosedLapsQuiet ==
    /\ \A k \in DOMAIN laps : laps[k].isRecorded => ~laps[k].triggered
    /\ played # 0 => (played \in DOMAIN laps /\ ~laps[played].isRecorded)

\* C4: a closed lap never has its triggered flag set, playAlarmSound is
\* never invoked for a closed lap, and a closed lap stays closed.
C4_OnlyActiveLapEvaluated ==
    /\ []C4_ClosedLapsQuiet
    /\ [][ \A k \in DOMAIN laps \cap DOMAIN laps' :
               laps[k].isRecorded => laps'[k].isRecorded ]_vars

C4_RearmedClosedLapTicked ==
    /\ TickJustRan
    /\ \E k \in DOMAIN laps :
           /\ laps[k].isRecorded
           /\ laps[k].enabled
           /\ getLapElapsedTime(k) >= laps[k].alarmDuration

\* C5: every lap of the ledger that is not recorded is the last one, so at
\* most one lap is open at any time.
C5_OneOpenLapAtTheEnd ==
    \A k \in DOMAIN laps : ~laps[k].isRecorded => k = Len(laps)

C5_ClosedThenOpen ==
    /\ Len(laps) >= 2
    /\ laps[Len(laps) - 1].isRecorded
    /\ ~laps[Len(laps)].isRecorded

\* C6: the elapsed time getLapElapsedTime reports for a closed lap does not
\* change in any later step.
C6_ClosedLapFrozen ==
    [][ \A k \in DOMAIN laps \cap DOMAIN laps' :
            laps[k].isRecorded => getLapElapsedTime(k)' = getLapElapsedTime(k)
      ]_vars

\* C7: a createLap taken while paused closes the open lap and opens a new
\* one; the new lap's elapsed time is 0 for the rest of the pause and is
\* still 0 right after the resume.
C7_LapOpenedWhilePaused ==
    [][ /\ (~isRunning /\ Len(laps') = Len(laps) + 1 /\ laps # <<>>) =>
               (laps'[Len(laps)].isRecorded /\ ~laps'[Len(laps')].isRecorded)
        /\ (~isRunning' /\ pauseMark'.lapOpened) => ActiveLapElapsed' = 0
        /\ (~isRunning /\ isRunning' /\ pauseMark.lapOpened) =>
               ActiveLapElapsed' = 0 ]_vars

\* C8: in a fresh run the first lap's threshold is 300000 ms, its alarm does
\* not fire before the stopwatch shows 300000 ms, plays only at the first
\* tick from there on, and has fired by 320000 ms.
C8_FreshRunAlarmAtFiveMinutes ==
    laps # <<>> =>
        /\ laps[1].alarmDuration = 300000
        /\ laps[1].triggered => MainElapsed >= 300000
        /\ played = 1 => MainElapsed < 300000 + TickPeriod
        /\ MainElapsed >= ScenarioEnd => laps[1].triggered

\* C9: a resume leaves the main elapsed time within one tick period of the
\* elapsed time E the stopwatch had at the instant of the pause, however
\* long the pause lasted.  (pausedTime is what the last interval callback
\* stored; a callback that ran late, or not at all, leaves it further
\* behind E.)
C9_PausedTimeNotCounted ==
    [][ (~isRunning /\ isRunning' /\ pauseMark.at # Null) =>
            LET E == pauseMark.at - startTime
            IN  /\ MainElapsed' - E <= TickPeriod
                /\ E - MainElapsed' <= TickPeriod ]_vars

\* C10: resetStopwatch leaves the clock and the ledger as they were at
\* startup, no interval timer active, no lap history in the store and the
\* main display at 00:00:00.
C10_ResetRestoresInitialState ==
    [][ ResetStopwatch =>
            /\ isRunning' = FALSE
            /\ elapsedTime' = 0
            /\ pausedTime' = 0
            /\ startTime' = Null
            /\ currentLapStartTime' = Null
            /\ laps' = <<>>
            /\ tickSources' = 0
            /\ ~stored'.present
            /\ stopwatchTimeText' = <<"0", "0", ":", "0", "0", ":", "0", "0">>
      ]_vars

C10_ResetAfterAlarm ==
    /\ laps = <<>>
    /\ ~isRunning
    /\ intervalId = "cleared"
    /\ audioPlaying
    /\ storageAvailable

\* C11: resetStopwatch stops the alarm: when the alarm clip is playing, it
\* is no longer playing right after a reset.
C11_ResetStopsAlarm ==
    [][ (ResetStopwatch /\ audioPlaying) => ~audioPlaying' ]_vars

\* C12: playAlarmSound is called in a step exactly when a lap's triggered
\* flag goes from false to true in that step, for that lap and no other; and
\* every createLap that records a lap leaves no alarm sounding.
C12_AlarmSoundCalls ==
    [][ /\ played' \in DOMAIN laps \cup {0}
        /\ \A k \in DOMAIN laps :
               played' = k <=> /\ k \in DOMAIN laps'
                               /\ ~laps[k].triggered
                               /\ laps'[k].triggered
        /\ (laps # <<>> /\ Len(laps') = Len(laps) + 1) => ~audioPlaying'
      ]_vars

C12_SecondLapAlarmSounding ==
    /\ Len(laps) = 2
    /\ laps[1].isRecorded
    /\ played = 2
    /\ laps[2].triggered
    /\ audioPlaying

\* C13: a createLap on a non-empty ledger, running or paused, straight
\* after another createLap or not, with the store usable or not, is left by
\* no exception, closes the lap that was last (recorded, alarm disabled, not
\* triggered, also when its alarm had fired), leaves the earlier laps as
\* they were and appends exactly one open lap created at a clock reading
\* taken during the call (the only one, when paused) with the default
\* threshold of its position, enabled and not triggered.
C13_CreateLapClosesAndAppends ==
    [][ (laps # <<>> /\ CreateLapWithin(LedgerLaps)) =>
            LET n == Len(laps) IN
            /\ ~uncaughtError'
            /\ Len(laps') = n + 1
            /\ \A k \in 1..(n - 1) : laps'[k] = laps[k]
            /\ laps'[n].isRecorded
            /\ ~laps'[n].enabled
            /\ ~laps'[n].triggered
            /\ laps'[n].createdAt = laps[n].createdAt
            /\ laps'[n + 1].createdAt >= now
            /\ laps'[n + 1].createdAt <= now'
            /\ ~isRunning => now' = now
            /\ laps'[n + 1].alarmDuration =
                   IF n + 1 <= Len(DefaultAlarmDurations)
                   THEN DefaultAlarmDurations[n + 1]
                   ELSE 300000
            /\ laps'[n + 1].enabled
            /\ ~laps'[n + 1].triggered
            /\ ~laps'[n + 1].isRecorded
      ]_vars

\* Without a usable store, a lap whose alarm had fired was closed, and two
\* laps were opened at one clock reading while paused.
C13_TwoLapsAtOnceWhilePaused ==
    /\ Len(laps) = 3
    /\ ~isRunning
    /\ ~storageAvailable
    /\ ~uncaughtError
    /\ closedFired
    /\ \A k \in 1..3 : ~laps[k].triggered
    /\ pauseMark.lapOpened
    /\ laps[2].createdAt = now
    /\ laps[3].createdAt = now
    /\ laps[2].isRecorded
    /\ ~laps[3].isRecorded

\* C14: createLap with the stopwatch not running and the ledger empty is
\* ignored: the clock state, the ledger, the store, the displays and the
\* alarm clip are left exactly as they were.
C14_CreateLapIgnoredWhenIdle ==
    [][ (~isRunning /\ laps = <<>> /\ CreateLap) =>
            UNCHANGED <<progVars, envVars, pauseMark, edits>> ]_vars

C14_IdleWithAlarmSounding ==
    /\ ~isRunning
    /\ laps = <<>>
    /\ startTime = Null
    /\ audioPlaying
    /\ ENABLED CreateLap

\* C15: after a createLap that records a lap, an available store holds
\* under 'lapsHistory' the whole ledger in order, each lap with its
\* createdAt, recordedTime, alarmDuration, triggered and enabled; after a
\* resetStopwatch the store holds no lap history.
C15_StoreFollowsLedger ==
    [][ /\ (laps # <<>> /\ CreateLap /\ storageAvailable) =>
               /\ stored'.present
               /\ Len(stored'.value) = Len(laps')
               /\ Len(laps') = Len(laps) + 1
               /\ \A k \in DOMAIN laps' :
                      /\ DOMAIN stored'.value[k] =
                             {"createdAt", "recordedTime", "alarmDuration",
                              "triggered", "enabled"}
                      /\ stored'.value[k].createdAt = laps'[k].createdAt
                      /\ stored'.value[k].recordedTime = laps'[k].recordedTime
                      /\ stored'.value[k].alarmDuration = laps'[k].alarmDuration
                      /\ stored'.value[k].triggered = laps'[k].triggered
                      /\ stored'.value[k].enabled = laps'[k].enabled
        /\ ResetStopwatch => ~stored'.present
      ]_vars

C15_TwoLapsSaved ==
    /\ storageAvailable
    /\ stored.present
    /\ Len(stored.value) = 2
    /\ Len(laps) = 2
    /\ stored.value[1].recordedTime > 0
    /\ stored.value[2].createdAt = now

\* C16: a store that throws changes nothing but the store: after createLap
\* and after resetStopwatch the clock state, the ledger, the displays and
\* the alarm clip are the same function of the state before the call in a
\* and the handler's clock readings in a session whose store throws as in
\* one whose store works, no exception leaves the handler, and a throwing
\* store is left as it was.
C16_StorageFailureHarmless ==
    [][ /\ ResetStopwatch =>
               /\ <<isRunning', elapsedTime', pausedTime'>> = <<FALSE, 0, 0>>
               /\ <<startTime', currentLapStartTime'>> = <<Null, Null>>
               /\ laps' = <<>>
               /\ tickSources' = 0
               /\ stopwatchTimeText' = formatTime(0)
               /\ currentLapTimeText' = formatTime(0)
               /\ UNCHANGED <<now, audioPlaying>>
               /\ ~uncaughtError'
               /\ ~storageAvailable => stored' = stored
        /\ (laps # <<>> /\ CreateLap) =>
               LET n == Len(laps)
                   recordedTime ==
                       CurrentLapElapsed(isRunning, now, startTime,
                                         pausedTime, currentLapStartTime)
               IN  /\ laps' = Append([laps EXCEPT ![n] =
                                         CloseLap(laps[n], recordedTime)],
                                     NewLap(laps'[n + 1].createdAt, n))
                   /\ laps'[n + 1].createdAt >= now
                   /\ laps'[n + 1].createdAt <= now'
                   /\ ~isRunning => now' = now
                   /\ currentLapStartTime' =
                          IF isRunning THEN now' ELSE startTime + pausedTime
                   /\ ~audioPlaying'
                   /\ UNCHANGED <<isRunning, elapsedTime, startTime,
                                  pausedTime, intervalId, tickSources,
                                  tickDue, stopwatchTimeText,
                                  currentLapTimeText>>
                   /\ ~uncaughtError'
                   /\ ~storageAvailable => stored' = stored
      ]_vars

C16_LapRecordedWithoutStore ==
    /\ ~storageAvailable
    /\ Len(laps) = 2
    /\ laps[1].isRecorded
    /\ laps[1].recordedTime > 0
    /\ currentLapStartTime = now
    /\ ~stored.present

\* C17: when the interval callback fires a lap's alarm the lap's triggered
\* flag is set whether or not the audio element agrees to play, no exception
\* leaves the callback, and a later callback keeps the flag set and does not
\* call playAlarmSound for that lap again nor start the clip.
C17_RefusedPlaybackStillTriggers ==
    [][ (\E playOk \in BOOLEAN : Tick(playOk)) =>
            /\ played' # 0 => laps'[played'].triggered
            /\ \A k \in DOMAIN laps :
                   laps[k].triggered => (laps'[k].triggered /\ played' # k)
            /\ played' = 0 => audioPlaying' = audioPlaying
            /\ ~uncaughtError'
      ]_vars

C17_FiredButSilent ==
    /\ played # 0
    /\ laps[played].triggered
    /\ ~audioPlaying

\* C18: while the stopwatch keeps running and the open lap stays enabled,
\* with no pause, reset, new lap, toggle or edit, fair ticking brings the
\* lap's elapsed time to its threshold and its alarm fires.
C18_AlarmEventuallyFires ==
    (isRunning /\ laps # <<>> /\ laps[Len(laps)].enabled)
        ~> (laps # <<>> /\ laps[Len(laps)].triggered
                        /\ ActiveLapElapsed >= laps[Len(laps)].alarmDuration)

C18_FiredInFreshRun ==
    /\ isRunning
    /\ played = 1
    /\ laps[1].triggered
    /\ ActiveLapElapsed >= laps[1].alarmDuration

\* C19: in script.js the interval callback fires every lap, not only the
\* most recent, that is enabled, not yet triggered and whose own time since
\* its creation has reached its own threshold when the callback begins, and
\* fires no lap whose own time has not reached it when the callback ends
\* (each lap is measured at a clock reading of its own in between); neither
\* a firing nor the creation of a lap changes the triggered or enabled flag
\* of any other lap.
C19_EveryLapHasItsOwnAlarm ==
    [][ /\ (\E playOk \in BOOLEAN : Script_Tick(playOk)) =>
               /\ isRunning
               /\ DOMAIN laps' = DOMAIN laps
               /\ \A k \in DOMAIN laps :
                      /\ laps'[k].enabled = laps[k].enabled
                      /\ ( \/ laps[k].triggered
                           \/ /\ laps[k].enabled
                              /\ now - laps[k].createdAt >=
                                     laps[k].alarmDuration )
                             => laps'[k].triggered
                      /\ laps'[k].triggered =>
                             \/ laps[k].triggered
                             \/ /\ laps[k].enabled
                                /\ now' - laps[k].createdAt >=
                                       laps[k].alarmDuration
        /\ Len(laps') = Len(laps) + 1 =>
               \A k \in DOMAIN laps :
                   /\ laps'[k].enabled = laps[k].enabled
                   /\ laps'[k].triggered = laps[k].triggered
      ]_vars

C19_EarlierLapFired ==
    /\ Len(laps) = 2
    /\ played = 1
    /\ laps[1].triggered
    /\ laps[2].enabled
    /\ ~laps[2].triggered

\* C20: a new lap's default threshold depends only on its 0-based position
\* in the ledger: 5, 3, 3, 5, 5 minutes for positions 0 to 4 and 300000 ms
\* from position 5 on, counted again from position 0 after a reset.
C20_DefaultThresholdByPosition ==
    [][ Len(laps') = Len(laps) + 1 =>
            LET documented == <<300000, 180000, 180000, 300000, 300000>>
                position   == Len(laps)
            IN  laps'[position + 1].alarmDuration =
                    IF position < 5 THEN documented[position + 1] ELSE 300000
      ]_vars

\* C21: pauseStopwatch called while running at clock reading now leaves the
\* accumulated elapsed time (pausedTime) at exactly now - startTime.
C21_PauseFreezesAtNow ==
    [][ (isRunning /\ PauseStopwatch) => pausedTime' = now - startTime ]_vars

\* C22: when createLap closes the open lap, the recordedTime it stores is
\* the value getLapElapsedTime returns for that lap at that instant,
\* max(0, mainElapsed - (createdAt - startTime)).
C22_RecordedTimeIsLapElapsed ==
    [][ (laps # <<>> /\ CreateLapWithin(LedgerLaps) /\ ~laps[Len(laps)].isRecorded) =>
            LET n == Len(laps)
            IN  /\ laps'[n].isRecorded
                /\ laps'[n].recordedTime = getLapElapsedTime(n)
                /\ laps'[n].recordedTime =
                       Max(0, MainElapsed - (laps[n].createdAt - startTime))
      ]_vars

\* C23: an interval callback fires the open lap's alarm exactly when the
\* lap is enabled, not yet triggered and its elapsed time is at least its
\* threshold (equality fires); a fire sets triggered and calls playback for
\* that lap; no other step sets a triggered flag, so a lap with threshold
\* zero fires at the next callback, not when it is created or edited.
C23_FiresIffDueAtTick ==
    [][ /\ (\E playOk \in BOOLEAN : Tick(playOk)) =>
               LET n == Len(laps) IN
               /\ played' \in {0, n}
               /\ n > 0 =>
                      /\ played' = n <=>
                             /\ laps[n].enabled
                             /\ ~laps[n].triggered
                             /\ getLapElapsedTime(n)' >= laps[n].alarmDuration
                      /\ played' = n => laps'[n].triggered
        /\ ~(\E playOk \in BOOLEAN : Tick(playOk)) =>
               /\ played' = 0
               /\ \A k \in DOMAIN laps' :
                      laps'[k].triggered =>
                          (k \in DOMAIN laps /\ laps[k].triggered)
      ]_vars

C23_ZeroThresholdFiredAtTick ==
    /\ laps # <<>>
    /\ played = Len(laps)
    /\ laps[played].triggered
    /\ laps[played].alarmDuration = 0
    /\ ActiveLapElapsed = 0

\* C24: in every reachable state the interval timer is active exactly when
\* isRunning is true, and at most one interval timer is active.
C24_TickSourceIffRunning ==
    /\ tickSources \in {0, 1}
    /\ tickSources = 1 <=> isRunning
    /\ isRunning <=> intervalId = "active"
    /\ isRunning <=> tickDue # Null

C24_RunningAgainAfterPause ==
    /\ isRunning
    /\ pauseMark.at # Null
    /\ tickSources = 1
    /\ pausedTime > 0

\* C25: the ledger is empty at startup; startStopwatch appends exactly one
\* lap when the ledger is empty, none on a resume, and changes nothing at
\* all when already running; a createLap that is not ignored appends
\* exactly one lap; pause, interval callback, threshold edit and toggle keep
\* the ledger's length; short of a reset no lap is removed or moved and no
\* createdAt changes.
C25_LedgerLifecycle ==
    /\ laps = <<>>
    /\ [][ /\ StartStopwatch =>
                  /\ isRunning => UNCHANGED <<progVars, envVars>>
                  /\ (~isRunning /\ laps = <<>>) => Len(laps') = 1
                  /\ (~isRunning /\ laps # <<>>) => laps' = laps
           /\ (CreateLap /\ (isRunning \/ laps # <<>>)) =>
                  Len(laps') = Len(laps) + 1
           /\ ( \/ PauseStopwatch
                \/ \E playOk \in BOOLEAN : Tick(playOk)
                \/ \E k \in 1..MaxLaps, d \in DurationInputs :
                       UpdateLapAlarmDuration(k, d)
                \/ \E k \in 1..MaxLaps : ToggleLapAlarm(k) ) =>
                  Len(laps') = Len(laps)
           /\ ~ResetStopwatch =>
                  /\ Len(laps') >= Len(laps)
                  /\ \A k \in DOMAIN laps :
                         laps'[k].createdAt = laps[k].createdAt
         ]_vars

C25_ResumedWithTwoLaps ==
    /\ JustResumed
    /\ Len(laps) = 2
    /\ laps[1].createdAt < laps[2].createdAt
    /\ edits > 0

\* C26: a triggered flag that is true becomes false only when that lap is
\* closed by createLap, or by updateLapAlarmDuration or toggleLapAlarm on
\* that very lap; every other step that keeps the lap keeps its flag.
C26_TriggeredClearedOnlyByCloseOrEdit ==
    [][ \A k \in DOMAIN laps \cap DOMAIN laps' :
            (laps[k].triggered /\ ~laps'[k].triggered) =>
                \/ /\ CreateLap
                   /\ k = Len(laps)
                   /\ Len(laps') = Len(laps) + 1
                   /\ laps'[k].isRecorded
                \/ \E d \in DurationInputs : UpdateLapAlarmDuration(k, d)
                \/ ToggleLapAlarm(k)
      ]_vars

C26_OtherLapEditedAfterFire ==
    /\ Len(laps) = 2
    /\ laps[2].triggered
    /\ played = 0
    /\ edits = 2
    /\ laps[2].alarmDuration = 0
    /\ laps[1].alarmDuration = 100

\* C27: updateLapAlarmDuration(i, d) sets lap i's alarmDuration to d and
\* clears its triggered flag, toggleLapAlarm(i) flips its enabled flag and
\* clears triggered, both leave every other lap alone and do nothing for an
\* index outside the ledger; the next interval callback evaluates the open
\* lap afresh and fires it if it is enabled and its elapsed time has reached
\* the threshold now in force.
C27_EditRearmsAndNextTickFires ==
    [][ /\ \A k \in 1..MaxLaps, d \in DurationInputs :
               UpdateLapAlarmDuration(k, d) =>
                   IF k \in DOMAIN laps
                   THEN /\ DOMAIN laps' = DOMAIN laps
                        /\ laps'[k] = [laps[k] EXCEPT !.alarmDuration = d,
                                                      !.triggered = FALSE]
                        /\ \A j \in DOMAIN laps \ {k} : laps'[j] = laps[j]
                   ELSE laps' = laps
        /\ \A k \in 1..MaxLaps :
               ToggleLapAlarm(k) =>
                   IF k \in DOMAIN laps
                   THEN /\ DOMAIN laps' = DOMAIN laps
                        /\ laps'[k] = [laps[k] EXCEPT !.enabled = ~laps[k].enabled,
                                                      !.triggered = FALSE]
                        /\ \A j \in DOMAIN laps \ {k} : laps'[j] = laps[j]
                   ELSE laps' = laps
        /\ ((\E playOk \in BOOLEAN : Tick(playOk)) /\ laps # <<>>) =>
               LET n == Len(laps) IN
               ( /\ laps[n].enabled
                 /\ ~laps[n].triggered
                 /\ getLapElapsedTime(n)' >= laps[n].alarmDuration ) =>
                   (played' = n /\ laps'[n].triggered)
      ]_vars

C27_FiredAgainAfterEdit ==
    /\ laps # <<>>
    /\ played = Len(laps)
    /\ laps[played].alarmDuration = 100
    /\ ActiveLapElapsed >= 200
    /\ edits = 2
    /\ audioPlaying

\* C28: in every reachable state the main elapsed time (now - startTime
\* while running, pausedTime while paused), every value getLapElapsedTime
\* returns and every stored recordedTime are at least 0.
C28_ElapsedNeverNegative ==
    /\ MainElapsed >= 0
    /\ pausedTime >= 0
    /\ elapsedTime >= 0
    /\ \A k \in DOMAIN laps :
           /\ getLapElapsedTime(k) >= 0
           /\ laps[k].recordedTime >= 0

C28_LapOpenedLateInPause ==
    /\ ~isRunning
    /\ Len(laps) = 2
    /\ pausedTime - (laps[2].createdAt - startTime) < 0
    /\ getLapElapsedTime(2) = 0

\* C29: no lap has run longer than the stopwatch: getLapElapsedTime of
\* every lap is at most the main elapsed time, and a recordedTime stored by
\* a closing createLap is at most the main elapsed time at that instant.
C29_LapNotLongerThanStopwatch ==
    /\ [](\A k \in DOMAIN laps : getLapElapsedTime(k) <= MainElapsed)
    /\ [][ (laps # <<>> /\ CreateLap /\ ~laps[Len(laps)].isRecorded) =>
               laps'[Len(laps)].recordedTime <= MainElapsed ]_vars

\* C30: in every interval callback the elapsed time shown for the current
\* lap (derived from currentLapStartTime) equals the elapsed time compared
\* with the threshold (getLapElapsedTime of the last lap, derived from
\* createdAt).
C30_DisplayedLapTimeIsAlarmTime ==
    [][ ((\E playOk \in BOOLEAN : Tick(playOk)) /\ laps # <<>>) =>
            Max(0, CurrentLapElapsed(isRunning', now', startTime',
                                     pausedTime', currentLapStartTime'))
                = getLapElapsedTime(Len(laps))'
      ]_vars

\* C31: no user action (start, pause, createLap, reset, threshold edit,
\* toggle) sets a lap's triggered flag or calls playAlarmSound, and no step
\* taken while isRunning is false does, even when the open lap is enabled
\* and its elapsed time has reached its threshold.
C31_AlarmFiresOnlyInTick ==
    [][ ( \/ ~isRunning
          \/ StartStopwatch
          \/ PauseStopwatch
          \/ CreateLap
          \/ ResetStopwatch
          \/ \E k \in 1..MaxLaps, d \in DurationInputs :
                 UpdateLapAlarmDuration(k, d)
          \/ \E k \in 1..MaxLaps : ToggleLapAlarm(k) ) =>
            /\ played' = 0
            /\ audioPlaying' => audioPlaying
            /\ \A k \in DOMAIN laps' :
                   laps'[k].triggered =>
                       (k \in DOMAIN laps /\ laps[k].triggered)
      ]_vars

C31_PausedWithLapPastThreshold ==
    /\ ~isRunning
    /\ pauseMark.at # Null
    /\ now > pauseMark.at
    /\ edits > 0
    /\ laps # <<>>
    /\ laps[Len(laps)].enabled
    /\ ~laps[Len(laps)].triggered
    /\ ActiveLapElapsed >= laps[Len(laps)].alarmDuration

\* C32: in every reachable state the ledger is empty exactly when startTime
\* is null, which is exactly when currentLapStartTime is null; a running
\* stopwatch has a non-empty ledger, and createLap is ignored exactly when
\* the ledger is empty.
C32_LedgerEmptyIffNeverStarted ==
    /\ laps = <<>> <=> startTime = Null
    /\ laps = <<>> <=> currentLapStartTime = Null
    /\ isRunning => laps # <<>>
    /\ (~isRunning /\ Len(laps) = 0) <=> laps = <<>>

C32_IdleAgainAfterReset ==
    /\ laps = <<>>
    /\ startTime = Null
    /\ currentLapStartTime = Null
    /\ intervalId = "cleared"
    /\ now > 0
    /\ edits > 0

====
